---- MODULE Spec2Model ----
(***************************************************************************)
(* Model of wol-man (src/src/main.rs): a Telegram long-polling loop that   *)
(* authorizes incoming messages, answers "/health", and on "/wake"         *)
(* broadcasts a Wake-on-LAN magic packet.                                  *)
(*                                                                         *)
(* Spec    models the polling loop of main (lines 67-134) together with    *)
(*         the calls it makes (send_telegram_message, send_wol_packet).    *)
(* SpecWol models send_wol_packet (lines 185-203) step by step, for any    *)
(*         target address drawn from MacSet.                               *)
(* SpecHonest is Spec with a backend that honours the offset, and with the  *)
(*         history of the update ids the loop has taken.                    *)
(*                                                                         *)
(* TLC's integers are 32 bits wide, so the u64 of update_id and offset is  *)
(* scaled to U64_BITS bits: the arithmetic is that of the code modulo      *)
(* 2^U64_BITS, and U64_MAX plays the part of 2^64 - 1.                     *)
(***************************************************************************)
EXTENDS Integers, Sequences, FiniteSets, TLC

\* ---------------------------------------------------------------- bounds

\* Width the u64 type is scaled to.
U64_BITS == 4

\* Longest `result` array of a fetch response.
MaxBatch == 2

\* ------------------------------------------------------------- constants

U64_MODULUS == 2 ^ U64_BITS
U64_MAX == U64_MODULUS - 1

\* main.rs:91  response.status() == 200
HTTP_OK == 200

\* main.rs:21  const AUTHORIZED_USERS: [i64; 1]  (the value is provisioned;
\* 42 is the authorized chat of the specification's scenarios)
AUTHORIZED_USERS == {42}

\* main.rs:187  vec![0xFF; 6]: the value and the number of the leading bytes
WOL_FILL == 255
WOL_HEADER_LEN == 6

\* main.rs:188  for _ in 0..16
WOL_REPEATS == 16

\* main.rs:185  fn send_wol_packet() has no return type: every path hands
\* back the unit value ().  NotReturned: the call has not come back yet.
UNIT == "()"
NotReturned == "not returned"

\* main.rs:24  const TARGET_MAC: [u8; 6]  (the value is provisioned)
TARGET_MAC == <<0, 17, 34, 51, 68, 85>>

\* -------------------------------------------------------------- the input

\* A String is a sequence of one-character strings.
WAKE == <<"/", "w", "a", "k", "e">>
HEALTH == <<"/", "h", "e", "a", "l", "t", "h">>
READY == <<"R", "e", "a", "d", "y", "!">>
SUCCESS == <<"S", "u", "c", "c", "e", "s", "s", "!">>

\* Option<T>: None is the empty sequence, Some(x) the one-element sequence.
None == <<>>
Some(x) == <<x>>
IsSome(o) == Len(o) = 1
Unwrap(o) == o[1]

\* Chat ids a message can come from: one authorized, one not.
ChatIds == {42, 99}

\* Message texts the backend delivers: the two commands, the commands
\* wrapped in whitespace, a command in another case, a longer text that
\* starts with a command.
Texts ==
  { WAKE,
    <<" ">> \o WAKE \o <<"\n">>,
    <<"/", "W", "a", "k", "e">>,
    HEALTH,
    <<"\t">> \o HEALTH \o <<" ">>,
    WAKE \o <<" ", "u", "p">> }

\* main.rs:38-47  struct Message { text: Option<String>, chat: Chat { id } }
Messages == [text : {None} \cup {Some(t) : t \in Texts}, chat : ChatIds]

\* update_id values the backend delivers: small ones and the largest u64.
UpdateIds == {0, 1, U64_MAX}

\* main.rs:32-36  struct Update { update_id: u64, message: Option<Message> }
Updates == [update_id : UpdateIds, message : {None} \cup {Some(m) : m \in Messages}]

RECURSIVE SeqsUpTo(_, _)
SeqsUpTo(S, n) ==
  IF n = 0 THEN {<<>>}
  ELSE LET shorter == SeqsUpTo(S, n - 1)
       IN  shorter \cup {Append(s, x) : s \in {t \in shorter : Len(t) = n - 1}, x \in S}

\* main.rs:26-30  TelegramResponse.result: any Vec<Update> the parser accepts
\* (serde checks the shape of the body, not the order or range of the ids).
Batches == SeqsUpTo(Updates, MaxBatch)

\* HTTP statuses of a fetch response.
Statuses == {HTTP_OK, 502}

\* Bytes a target address is made of, and the addresses send_wol_packet is
\* run for (all-zero and all-0xFF among them).
MacBytes == {0, 171, 255}
MacSet == [1..6 -> MacBytes]

VARIABLES
  pc,              \* position of main in its loop
  offset,          \* main.rs:67   let mut offset: u64
  urlOffset,       \* main.rs:70   the offset formatted into the last url
  status,          \* main.rs:91   response.status() of the last response
  result,          \* main.rs:103  updates.result of the parsed body
  idx,             \* main.rs:104  number of updates the for loop is done with
  log,             \* wake and reply calls of the current cycle, in order
  outcome,         \* how the last finished cycle ended
  slept,           \* a sleep (main.rs:133) followed the last issued fetch
  mac,             \* send_wol_packet: the target address
  packet,          \* send_wol_packet: main.rs:187  let mut packet
  wolPc,           \* send_wol_packet: position
  wolRound,        \* send_wol_packet: main.rs:188  rounds of the for loop done
  wolRet,          \* send_wol_packet: the value handed back to the caller
  dispatched,      \* history: the update ids the for loop has taken in this run
  duplicate        \* history: some update id was taken a second time

vars == <<pc, offset, urlOffset, status, result, idx, log,
          outcome, slept, mac, packet, wolPc, wolRound, wolRet,
          dispatched, duplicate>>

loopVars == <<pc, offset, urlOffset, status, result, idx, log,
              outcome, slept>>
wolVars == <<mac, packet, wolPc, wolRound, wolRet>>
histVars == <<dispatched, duplicate>>

\* ------------------------------------------------------- pure functions

\* char::is_whitespace on the characters of Texts
IsWhitespace(c) == c \in {" ", "\t", "\n", "\r"}

RECURSIVE TrimStart(_)
TrimStart(s) ==
  IF s # <<>> /\ IsWhitespace(Head(s)) THEN TrimStart(Tail(s)) ELSE s

RECURSIVE TrimEnd(_)
TrimEnd(s) ==
  IF s # <<>> /\ IsWhitespace(s[Len(s)]) THEN TrimEnd(SubSeq(s, 1, Len(s) - 1)) ELSE s

\* Mutant of Trim: only the leading whitespace is removed (trim_start).
Trim_StartOnly(s) == TrimStart(s)

\* main.rs:113,116  text.trim()
Trim(s) == TrimEnd(TrimStart(s))

\* Mutant of Authorized: the membership test is left out.
Authorized_Any(chat_id) == TRUE

\* main.rs:107  AUTHORIZED_USERS.contains(&msg.chat.id)
Authorized(chat_id) == chat_id \in AUTHORIZED_USERS

\* main.rs:105  update.update_id + 1 without overflow checks (it wraps)
NextOffset(update_id) == (update_id + 1) % U64_MODULUS

\* main.rs:105  update.update_id + 1 overflows u64
Overflows(update_id) == update_id + 1 > U64_MAX

\* A call of send_wol_packet (main.rs:117) made for the update at position k;
\* ok: the socket was bound and the datagram sent.
WakeCall(k, ok) == [call |-> "send_wol_packet", upd |-> k, ok |-> ok]

\* A call of send_telegram_message (main.rs:114,118) made for the update at
\* position k; ok: the POST was submitted.
ReplyCall(k, chat_id, text, ok) ==
  [call |-> "send_telegram_message", upd |-> k, chat_id |-> chat_id,
   text |-> text, ok |-> ok]

\* main.rs:113-115  if text.trim() == "/health" { send_telegram_message(.., "Ready!") }
OnHealth(k, chat_id, text, okReply) ==
  IF Trim(text) = HEALTH THEN <<ReplyCall(k, chat_id, READY, okReply)>> ELSE <<>>

\* Mutant of OnWake: the reply is sent before the packet.
OnWake_ReplyFirst(k, chat_id, text, okWake, okReply) ==
  IF Trim(text) = WAKE
  THEN <<ReplyCall(k, chat_id, SUCCESS, okReply), WakeCall(k, okWake)>>
  ELSE <<>>

\* Mutant of OnWake: the reply is sent only when the packet went out.
OnWake_ReplyOnSuccess(k, chat_id, text, okWake, okReply) ==
  IF Trim(text) = WAKE
  THEN IF okWake
       THEN <<WakeCall(k, okWake), ReplyCall(k, chat_id, SUCCESS, okReply)>>
       ELSE <<WakeCall(k, okWake)>>
  ELSE <<>>

\* main.rs:116-119  if text.trim() == "/wake" { send_wol_packet(); send_telegram_message(.., "Success!") }
OnWake(k, chat_id, text, okWake, okReply) ==
  IF Trim(text) = WAKE
  THEN <<WakeCall(k, okWake), ReplyCall(k, chat_id, SUCCESS, okReply)>>
  ELSE <<>>

\* main.rs:106-121  the calls the loop body makes for one update, in order
Dispatch(k, update, okWake, okReply) ==
  IF ~IsSome(update.message) THEN <<>>
  ELSE LET msg == Unwrap(update.message)
       IN  IF ~Authorized(msg.chat) THEN <<>>
           ELSE IF ~IsSome(msg.text) THEN <<>>
           ELSE OnHealth(k, msg.chat, Unwrap(msg.text), okReply)
                  \o OnWake(k, msg.chat, Unwrap(msg.text), okWake, okReply)

\* ------------------------------------------------------ the polling loop

\* main.rs:67  (after the start-up of lines 50-65)
Init ==
  /\ pc = "loop"
  /\ offset = 0
  /\ urlOffset = 0
  /\ status = 0
  /\ result = <<>>
  /\ idx = 0
  /\ log = <<>>
  /\ outcome = "none"
  /\ slept = FALSE
  /\ mac = TARGET_MAC
  /\ packet = <<>>
  /\ wolPc = "idle"
  /\ wolRound = 0
  /\ wolRet = NotReturned
  /\ dispatched = {}
  /\ duplicate = FALSE

\* Mutant of BuildUrl: the url of the cycle before is used again.
BuildUrl_Stale ==
  /\ pc = "loop"
  /\ pc' = "connect"
  /\ UNCHANGED <<offset, urlOffset, status, result, idx, log, outcome, slept>>
  /\ UNCHANGED wolVars
  /\ UNCHANGED histVars

\* main.rs:70-73  let url = format!("...offset={}...", offset)
BuildUrl ==
  /\ pc = "loop"
  /\ urlOffset' = offset
  /\ pc' = "connect"
  /\ UNCHANGED <<offset, status, result, idx, log, outcome, slept>>
  /\ UNCHANGED wolVars
  /\ UNCHANGED histVars

\* main.rs:75-81  EspHttpConnection::new(..)? succeeds
ConnectOk ==
  /\ pc = "connect"
  /\ pc' = "request"
  /\ UNCHANGED <<offset, urlOffset, status, result, idx, log, outcome, slept>>
  /\ UNCHANGED wolVars
  /\ UNCHANGED histVars

\* main.rs:79  EspHttpConnection::new(..)? fails: `?` returns the error from main
ConnectFail ==
  /\ pc = "connect"
  /\ pc' = "exited"
  /\ UNCHANGED <<offset, urlOffset, status, result, idx, log, outcome, slept>>
  /\ UNCHANGED wolVars
  /\ UNCHANGED histVars

\* Mutant of RequestOk: the status is not looked at, the body is read anyway.
RequestOk_IgnoresStatus ==
  /\ pc = "request"
  /\ \E st \in Statuses : status' = st
  /\ pc' = "read"
  /\ outcome' = "none"
  /\ slept' = FALSE
  /\ UNCHANGED <<offset, urlOffset, result, idx, log>>
  /\ UNCHANGED wolVars
  /\ UNCHANGED histVars

\* main.rs:85-91  the fetch is issued and answered: Ok(response)
RequestOk ==
  /\ pc = "request"
  /\ \E st \in Statuses :
       /\ status' = st
       /\ IF st = HTTP_OK
          THEN pc' = "read" /\ outcome' = "none"
          ELSE pc' = "sleep" /\ outcome' = "status"   \* main.rs:126-128
  /\ slept' = FALSE
  /\ UNCHANGED <<offset, urlOffset, result, idx, log>>
  /\ UNCHANGED wolVars
  /\ UNCHANGED histVars

\* Mutant of RequestErr: a failed fetch moves the offset on.
RequestErr_SkipsAhead ==
  /\ pc = "request"
  /\ pc' = "sleep"
  /\ outcome' = "transport"
  /\ slept' = FALSE
  /\ offset' = NextOffset(offset)
  /\ UNCHANGED <<urlOffset, status, result, idx, log>>
  /\ UNCHANGED wolVars
  /\ UNCHANGED histVars

\* Mutant of RequestErr: the error branch goes straight to the next round
\* of the loop (a `continue`), past the sleep.
RequestErr_Continue ==
  /\ pc = "request"
  /\ pc' = "loop"
  /\ outcome' = "transport"
  /\ slept' = FALSE
  /\ UNCHANGED <<offset, urlOffset, status, result, idx, log>>
  /\ UNCHANGED wolVars
  /\ UNCHANGED histVars

\* main.rs:85-87,130  the fetch cannot be made or submitted: Err(e)
RequestErr ==
  /\ pc = "request"
  /\ pc' = "sleep"
  /\ outcome' = "transport"
  /\ slept' = FALSE
  /\ UNCHANGED <<offset, urlOffset, status, result, idx, log>>
  /\ UNCHANGED wolVars
  /\ UNCHANGED histVars

\* main.rs:92-103  the body is read and parses as a TelegramResponse
ParseOk ==
  /\ pc = "read"
  /\ \E batch \in Batches : result' = batch
  /\ idx' = 0
  /\ pc' = "batch"
  /\ UNCHANGED <<offset, urlOffset, status, log, outcome, slept>>
  /\ UNCHANGED wolVars
  /\ UNCHANGED histVars

\* Mutant of ParseFail: a body that does not parse is skipped by moving the
\* offset on.
ParseFail_SkipsAhead ==
  /\ pc = "read"
  /\ pc' = "sleep"
  /\ outcome' = "parse"
  /\ offset' = NextOffset(offset)
  /\ UNCHANGED <<urlOffset, status, result, idx, log, slept>>
  /\ UNCHANGED wolVars
  /\ UNCHANGED histVars

\* main.rs:92-103,123-125  the body (whole, or cut short by a read error) does not parse
ParseFail ==
  /\ pc = "read"
  /\ pc' = "sleep"
  /\ outcome' = "parse"
  /\ UNCHANGED <<offset, urlOffset, status, result, idx, log, slept>>
  /\ UNCHANGED wolVars
  /\ UNCHANGED histVars

\* Mutant of ProcessUpdate: the calls of an update are put in front of those
\* of the updates before it.
ProcessUpdate_Prepends ==
  /\ pc = "batch"
  /\ idx < Len(result)
  /\ LET update == result[idx + 1]
     IN  /\ offset' = NextOffset(update.update_id)
         /\ \E okWake \in BOOLEAN, okReply \in BOOLEAN :
              log' = Dispatch(idx + 1, update, okWake, okReply) \o log
  /\ idx' = idx + 1
  /\ UNCHANGED <<pc, urlOffset, status, result, outcome, slept>>
  /\ UNCHANGED wolVars
  /\ UNCHANGED histVars

\* main.rs:104-122  one round of `for update in updates.result`: the offset
\* is set first, then the message, if any, is dispatched.  Where
\* update_id + 1 overflows, this is the build without overflow checks.
TakeUpdate ==
  /\ pc = "batch"
  /\ idx < Len(result)
  /\ LET update == result[idx + 1]
     IN  /\ offset' = NextOffset(update.update_id)
         /\ \E okWake \in BOOLEAN, okReply \in BOOLEAN :
              log' = log \o Dispatch(idx + 1, update, okWake, okReply)
  /\ idx' = idx + 1
  /\ UNCHANGED <<pc, urlOffset, status, result, outcome, slept>>
  /\ UNCHANGED wolVars

\* TakeUpdate, the history left alone.
ProcessUpdate == TakeUpdate /\ UNCHANGED histVars

\* main.rs:105  update.update_id + 1 overflows in a build with overflow
\* checks: "attempt to add with overflow" panics and ends the process.
OverflowPanic ==
  /\ pc = "batch"
  /\ idx < Len(result)
  /\ Overflows(result[idx + 1].update_id)
  /\ pc' = "panicked"
  /\ UNCHANGED <<offset, urlOffset, status, result, idx, log, outcome, slept>>
  /\ UNCHANGED wolVars
  /\ UNCHANGED histVars

\* Mutant of BatchDone: the end of a batch moves the offset on once more.
BatchDone_SkipsAhead ==
  /\ pc = "batch"
  /\ idx = Len(result)
  /\ pc' = "sleep"
  /\ outcome' = "processed"
  /\ offset' = NextOffset(offset)
  /\ UNCHANGED <<urlOffset, status, result, idx, log, slept>>
  /\ UNCHANGED wolVars
  /\ UNCHANGED histVars

\* main.rs:104,122  the for loop has taken every update
BatchDone ==
  /\ pc = "batch"
  /\ idx = Len(result)
  /\ pc' = "sleep"
  /\ outcome' = "processed"
  /\ UNCHANGED <<offset, urlOffset, status, result, idx, log, slept>>
  /\ UNCHANGED wolVars
  /\ UNCHANGED histVars

\* main.rs:133  thread::sleep(Duration::from_secs(1)); the cycle's values are dropped
Sleep ==
  /\ pc = "sleep"
  /\ pc' = "loop"
  /\ slept' = TRUE
  /\ result' = <<>>
  /\ idx' = 0
  /\ log' = <<>>
  /\ UNCHANGED <<offset, urlOffset, status, outcome>>
  /\ UNCHANGED wolVars
  /\ UNCHANGED histVars

Next ==
  \/ BuildUrl
  \/ ConnectOk
  \/ ConnectFail
  \/ RequestOk
  \/ RequestErr
  \/ ParseOk
  \/ ParseFail
  \/ ProcessUpdate
  \/ OverflowPanic
  \/ BatchDone
  \/ Sleep

Spec == Init /\ [][Next]_vars

\* ------------------------------------------------------ send_wol_packet

\* send_wol_packet is entered with any target address of MacSet.
InitWol ==
  /\ pc = "loop"
  /\ offset = 0
  /\ urlOffset = 0
  /\ status = 0
  /\ result = <<>>
  /\ idx = 0
  /\ log = <<>>
  /\ outcome = "none"
  /\ slept = FALSE
  /\ mac \in MacSet
  /\ packet = <<>>
  /\ wolPc = "start"
  /\ wolRound = 0
  /\ wolRet = NotReturned
  /\ dispatched = {}
  /\ duplicate = FALSE

\* Mutant of WolNewPacket: the leading bytes are zeroes.
WolNewPacket_Zeroes ==
  /\ wolPc = "start"
  /\ packet' = [i \in 1..WOL_HEADER_LEN |-> 0]
  /\ wolRound' = 0
  /\ wolPc' = "extend"
  /\ UNCHANGED <<mac, wolRet>>
  /\ UNCHANGED loopVars
  /\ UNCHANGED histVars

\* main.rs:187  let mut packet = vec![0xFF; 6]
WolNewPacket ==
  /\ wolPc = "start"
  /\ packet' = [i \in 1..WOL_HEADER_LEN |-> WOL_FILL]
  /\ wolRound' = 0
  /\ wolPc' = "extend"
  /\ UNCHANGED <<mac, wolRet>>
  /\ UNCHANGED loopVars
  /\ UNCHANGED histVars

\* main.rs:188-190  one round of the loop: packet.extend_from_slice(&TARGET_MAC)
WolExtend ==
  /\ wolPc = "extend"
  /\ wolRound < WOL_REPEATS
  /\ packet' = packet \o mac
  /\ wolRound' = wolRound + 1
  /\ UNCHANGED <<mac, wolPc, wolRet>>
  /\ UNCHANGED loopVars
  /\ UNCHANGED histVars

\* main.rs:188,192  the loop ends; UdpSocket::bind("0.0.0.0:0") comes next
WolLoopDone ==
  /\ wolPc = "extend"
  /\ wolRound = WOL_REPEATS
  /\ wolPc' = "bind"
  /\ UNCHANGED <<mac, packet, wolRound, wolRet>>
  /\ UNCHANGED loopVars
  /\ UNCHANGED histVars

\* main.rs:192-194  Ok(socket)
WolBindOk ==
  /\ wolPc = "bind"
  /\ wolPc' = "send"
  /\ UNCHANGED <<mac, packet, wolRound, wolRet>>
  /\ UNCHANGED loopVars
  /\ UNCHANGED histVars

\* main.rs:201  Err(e): logged, the function returns ()
WolBindErr ==
  /\ wolPc = "bind"
  /\ wolPc' = "bind_failed"
  /\ wolRet' = UNIT
  /\ UNCHANGED <<mac, packet, wolRound>>
  /\ UNCHANGED loopVars
  /\ UNCHANGED histVars

\* main.rs:195,198  socket.send_to(&packet, "255.255.255.255:9") succeeds
WolSendOk ==
  /\ wolPc = "send"
  /\ wolPc' = "sent"
  /\ wolRet' = UNIT
  /\ UNCHANGED <<mac, packet, wolRound>>
  /\ UNCHANGED loopVars
  /\ UNCHANGED histVars

\* main.rs:195-196  send_to fails: logged, the function returns ()
WolSendErr ==
  /\ wolPc = "send"
  /\ wolPc' = "send_failed"
  /\ wolRet' = UNIT
  /\ UNCHANGED <<mac, packet, wolRound>>
  /\ UNCHANGED loopVars
  /\ UNCHANGED histVars

NextWol ==
  \/ WolNewPacket
  \/ WolExtend
  \/ WolLoopDone
  \/ WolBindOk
  \/ WolBindErr
  \/ WolSendOk
  \/ WolSendErr

SpecWol == InitWol /\ [][NextWol]_vars

\* ------------------------------------------------------------ properties

\* The ids of a batch are strictly increasing (the backend's ordering).
Ascending(r) == \A i \in 1..(Len(r) - 1) : r[i].update_id < r[i + 1].update_id

\* Every id of a batch is at or above the offset the fetch asked for.
HonoursOffset(r, o) == \A i \in 1..Len(r) : r[i].update_id >= o

\* The calls of the current cycle made for the update at position k, in order.
CallsFor(k) ==
  LET ForK(c) == c.upd = k
  IN  SelectSeq(log, ForK)

IsWakeCall(c) == c.call = "send_wol_packet"
IsReplyCall(c, chat_id, text) ==
  /\ c.call = "send_telegram_message"
  /\ c.chat_id = chat_id
  /\ c.text = text

\* t is `core` with nothing but whitespace before and after it.
IsPadded(t, core) ==
  \E i \in 1..(Len(t) + 1) :
    /\ i + Len(core) - 1 <= Len(t)
    /\ SubSeq(t, i, i + Len(core) - 1) = core
    /\ \A j \in 1..Len(t) :
         (j < i \/ j >= i + Len(core)) => t[j] \in {" ", "\t", "\n", "\r"}

\* The update at position k carries a text message of an authorized chat.
IsAuthorizedText(k) ==
  /\ IsSome(result[k].message)
  /\ Unwrap(result[k].message).chat \in AUTHORIZED_USERS
  /\ IsSome(Unwrap(result[k].message).text)

ChatOf(k) == Unwrap(result[k].message).chat
TextOf(k) == Unwrap(Unwrap(result[k].message).text)

\* C1: when a parsed batch with strictly increasing ids i1 < ... < in
\* (n >= 1) has been processed, the offset equals in + 1.
C1_OffsetAfterBatch ==
  (pc = "sleep" /\ outcome = "processed" /\ Len(result) >= 1 /\ Ascending(result))
    => offset = result[Len(result)].update_id + 1

\* C2: the offset never decreases.  Stated for the steps of a batch that
\* honours the backend's contract (ids strictly increasing and at or above
\* the offset the fetch asked for), the case most favourable to the claim.
C2_OffsetNeverDecreases ==
  [][(pc = "batch" /\ Ascending(result) /\ HonoursOffset(result, urlOffset))
       => offset' >= offset]_vars

\* C3: after a cycle whose body failed to parse the offset is the one the
\* failed request carried, and the next request is built with that value.
C3_ParseFailureKeepsOffset ==
  [][(outcome = "parse" /\ pc \in {"sleep", "loop"})
       => (offset = urlOffset /\ offset' = offset /\ urlOffset' = urlOffset)]_vars

\* C3 witness: the request after a parse failure is built, with an offset
\* that earlier batches had advanced.
C3_Witness == pc = "connect" /\ outcome = "parse" /\ urlOffset > 0

\* C4: no reply and no wake is ever made for an update whose message comes
\* from a chat outside the authorized set, whatever its text.
C4_AuthorizationGate ==
  \A k \in 1..idx :
    (IsSome(result[k].message) /\ Unwrap(result[k].message).chat \notin AUTHORIZED_USERS)
      => CallsFor(k) = <<>>

\* C4 witness: an unauthorized "/wake" has been processed right after an
\* authorized one that was acted on.
C4_Witness ==
  /\ pc = "batch" /\ idx = 2
  /\ IsAuthorizedText(1) /\ TextOf(1) = WAKE
  /\ IsSome(result[2].message)
  /\ ChatOf(2) \notin AUTHORIZED_USERS
  /\ Unwrap(result[2].message).text = Some(WAKE)
  /\ Len(log) = 2

\* C5: an authorized text that is "/wake" up to surrounding whitespace
\* yields exactly one wake followed by exactly one reply "Success!" to the
\* chat it came from; an authorized text that is neither command (another
\* case included) yields no call at all.
C5_WakeCommand ==
  \A k \in 1..idx :
    IsAuthorizedText(k) =>
      /\ IsPadded(TextOf(k), WAKE) =>
           /\ Len(CallsFor(k)) = 2
           /\ IsWakeCall(CallsFor(k)[1])
           /\ IsReplyCall(CallsFor(k)[2], ChatOf(k), SUCCESS)
      /\ (~IsPadded(TextOf(k), WAKE) /\ ~IsPadded(TextOf(k), HEALTH)) =>
           CallsFor(k) = <<>>

\* C5 witness: a "/wake" wrapped in whitespace was acted on and a "/Wake"
\* after it was ignored.
C5_Witness ==
  /\ pc = "batch" /\ idx = 2
  /\ IsAuthorizedText(1) /\ TextOf(1) = <<" ">> \o WAKE \o <<"\n">>
  /\ IsAuthorizedText(2) /\ TextOf(2) = <<"/", "W", "a", "k", "e">>
  /\ Len(CallsFor(1)) = 2
  /\ CallsFor(2) = <<>>

\* C6: an authorized text that is "/health" up to surrounding whitespace
\* yields exactly one reply "Ready!" to the chat it came from and no wake.
C6_HealthCommand ==
  \A k \in 1..idx :
    (IsAuthorizedText(k) /\ IsPadded(TextOf(k), HEALTH)) =>
      /\ Len(CallsFor(k)) = 1
      /\ IsReplyCall(CallsFor(k)[1], ChatOf(k), READY)

\* C6 witness: a "/health" wrapped in whitespace has been answered.
C6_Witness ==
  /\ pc = "batch" /\ idx >= 1
  /\ IsAuthorizedText(1) /\ TextOf(1) = <<"\t">> \o HEALTH \o <<" ">>
  /\ Len(CallsFor(1)) = 1

\* send_wol_packet has built its payload.
WolBuilt == wolPc \in {"bind", "send", "sent", "bind_failed", "send_failed"}

\* C7: the payload is 102 bytes, bytes 0..6 are 0xFF, and each of the 16
\* six-byte groups after them equals the target address.
C7_PacketShape ==
  WolBuilt =>
    /\ Len(packet) = 102
    /\ \A i \in 1..6 : packet[i] = 255
    /\ \A k \in 0..15 : \A j \in 1..6 : packet[6 + 6 * k + j] = mac[j]

\* C7 witness: the datagram of a mixed address has been sent.
C7_Witness ==
  /\ wolPc = "sent"
  /\ mac = <<0, 171, 255, 255, 171, 0>>
  /\ Len(packet) > 6

\* C8: nothing inside the loop ends the process: the loop has no terminal
\* state.
C8_NoTerminalState == pc \notin {"exited", "panicked"}

\* C9: after a transport failure of the fetch the offset is the one the
\* failed request carried, no reply or wake was made in the cycle, and the
\* retry is built, after the sleep, with the same offset.
C9_TransportFailure ==
  [][(outcome = "transport" /\ pc \in {"sleep", "loop"})
       => /\ offset = urlOffset /\ offset' = offset /\ urlOffset' = urlOffset
          /\ log = <<>>
          /\ (pc = "loop" => slept)]_vars

\* C9 witness: the retry after a transport failure is built, with an offset
\* that earlier batches had advanced.
C9_Witness == pc = "connect" /\ outcome = "transport" /\ urlOffset > 0 /\ slept

\* C10: every update taken out of a parsed batch advances the offset to its
\* id + 1, whatever it carries and however its dispatch ends.
C10_UnconditionalAdvance ==
  [][(pc = "batch" /\ idx < Len(result))
       => (pc' = "batch" /\ offset' = result[idx + 1].update_id + 1)]_vars

\* The batch of scenario C: a "/wake" and then a "/health" of the same
\* authorized chat, with increasing ids below the largest u64.
IsWakeThenHealth ==
  /\ Len(result) = 2
  /\ IsAuthorizedText(1) /\ TextOf(1) = WAKE
  /\ IsAuthorizedText(2) /\ TextOf(2) = HEALTH
  /\ ChatOf(1) = ChatOf(2)
  /\ result[1].update_id < result[2].update_id
  /\ result[2].update_id < U64_MAX

\* C11: updates are processed one after the other in the order returned:
\* every call made for an update precedes every call made for a later one,
\* and no call is made for an update not yet taken; a batch "/wake" then
\* "/health" of one authorized chat yields exactly wake, reply "Success!",
\* reply "Ready!" and leaves the offset at the second id + 1.
C11_SequentialOrder ==
  /\ \A i \in 1..Len(log) : log[i].upd <= idx
  /\ \A i \in 1..Len(log) : \A j \in 1..Len(log) :
       i < j => log[i].upd <= log[j].upd
  /\ (IsWakeThenHealth /\ idx = 2) =>
       /\ Len(log) = 3
       /\ IsWakeCall(log[1]) /\ log[1].upd = 1
       /\ IsReplyCall(log[2], ChatOf(1), SUCCESS) /\ log[2].upd = 1
       /\ IsReplyCall(log[3], ChatOf(1), READY) /\ log[3].upd = 2
       /\ offset = result[2].update_id + 1

\* C11 witness: the batch of scenario C has been processed.
C11_Witness ==
  /\ IsWakeThenHealth /\ idx = 2 /\ pc = "sleep"
  /\ Len(log) = 3
  /\ offset = 2

\* C12: when binding the socket or sending the datagram fails, what
\* send_wol_packet hands back differs from what it hands back on success
\* (the unit value), so the caller can tell the failure.
C12_FailureReported ==
  wolPc \in {"bind_failed", "send_failed"} => wolRet # UNIT

\* The calls made for the updates done so far: at most one wake and at most
\* one reply each, a failed wake is still followed by the "Success!" reply,
\* and no reply carries anything but one of the two fixed texts.
AttemptsAreSingle ==
  \A k \in 1..idx :
    LET calls == CallsFor(k)
    IN  /\ Cardinality({i \in 1..Len(calls) : IsWakeCall(calls[i])}) <= 1
        /\ Cardinality({i \in 1..Len(calls) : ~IsWakeCall(calls[i])}) <= 1
        /\ \A i \in 1..Len(calls) :
             (IsWakeCall(calls[i]) /\ ~calls[i].ok) =>
               \E j \in (i + 1)..Len(calls) :
                 IsReplyCall(calls[j], ChatOf(k), SUCCESS)
        /\ \A i \in 1..Len(calls) :
             ~IsWakeCall(calls[i]) => calls[i].text \in {READY, SUCCESS}

\* C13: reply and wake failures are not fatal and not retried: per update at
\* most one wake and one reply are attempted, a failed wake is still
\* followed by the "Success!" reply and by no error message, and a step in
\* which a call failed leaves the loop in the batch, done with that update.
C13_FailuresNotRetried ==
  [][/\ AttemptsAreSingle'
     /\ (\E i \in (Len(log) + 1)..Len(log') : ~log'[i].ok)
          => (pc' = "batch" /\ idx' = idx + 1)]_vars

\* C13 witness: the wake and the reply of a first "/wake" both failed and
\* the loop went on to answer the second update.
C13_Witness ==
  /\ pc = "batch" /\ idx = 2
  /\ Len(CallsFor(1)) = 2
  /\ ~CallsFor(1)[1].ok /\ ~CallsFor(1)[2].ok
  /\ IsWakeCall(CallsFor(1)[1])
  /\ Len(CallsFor(2)) = 1

\* C14: the offset is 0 until the first cycle has ended, so the first
\* request carries 0; and every request, from the moment its url is built
\* to the moment it is issued, carries the current value of the offset.
C14_FetchCarriesOffset ==
  /\ (outcome = "none" /\ pc \in {"loop", "connect", "request"}) => offset = 0
  /\ pc \in {"connect", "request"} => urlOffset = offset

\* C14 witness: a later request is about to be issued with the offset a
\* processed batch left behind.
C14_Witness ==
  pc = "request" /\ outcome = "processed" /\ offset = 2 /\ urlOffset = 2

\* C15: the offset changes only in the step that takes an update out of a
\* parsed batch; every other step (building and issuing the fetch, reading,
\* the failure branches, the end of a batch, an empty batch, the sleep)
\* leaves it as it is.
C15_SinglePointOfMutation ==
  [][offset' # offset
       => (pc = "batch" /\ idx < Len(result) /\ idx' = idx + 1)]_vars

\* C15 witness: an empty batch has been processed after earlier batches had
\* advanced the offset, which is still the one the request carried.
C15_Witness ==
  /\ pc = "sleep" /\ outcome = "processed"
  /\ result = <<>>
  /\ offset > 0 /\ offset = urlOffset

\* C16: when a fetch is about to be issued and a cycle has ended before it
\* (in a processed batch, a transport failure, a non-200 status or a parse
\* failure), the sleep has happened since the fetch of that cycle.
C16_SleepBetweenFetches ==
  (pc = "request" /\ outcome \in {"processed", "transport", "status", "parse"})
    => slept

\* C16 witness: the fetch after a cycle that ended in a non-200 status is
\* about to be issued.
C16_Witness == pc = "request" /\ outcome = "status" /\ slept

\* C17: the body of a response is read only when its status is 200; a
\* cycle that ended in another status has parsed nothing, taken no update,
\* made no call and left the offset at the value its request carried, and
\* the next url is built with that same value.
C17_Non200Status ==
  [][/\ (pc = "request" /\ pc' = "read") => status' = HTTP_OK
     /\ (outcome = "status" /\ pc \in {"sleep", "loop"})
          => /\ status # HTTP_OK
             /\ result = <<>> /\ idx = 0 /\ log = <<>>
             /\ offset = urlOffset /\ offset' = offset /\ urlOffset' = urlOffset]_vars

\* C17 witness: the request after a non-200 answer is built, with an offset
\* that earlier batches had advanced.
C17_Witness ==
  pc = "connect" /\ outcome = "status" /\ status # HTTP_OK /\ urlOffset > 0

\* --------------------------------------- a backend that honours the offset

\* main.rs:92-103  ParseOk where the backend keeps its contract: the ids of
\* the batch are strictly increasing and none is below the offset asked for.
HonestParseOk ==
  /\ pc = "read"
  /\ \E batch \in {b \in Batches : Ascending(b) /\ HonoursOffset(b, urlOffset)} :
       result' = batch
  /\ idx' = 0
  /\ pc' = "batch"
  /\ UNCHANGED <<offset, urlOffset, status, log, outcome, slept>>
  /\ UNCHANGED wolVars
  /\ UNCHANGED histVars

\* main.rs:104-122  TakeUpdate, the id of the update noted in the history.
TrackedProcessUpdate ==
  /\ TakeUpdate
  /\ dispatched' = dispatched \cup {result[idx + 1].update_id}
  /\ duplicate' = (duplicate \/ result[idx + 1].update_id \in dispatched)

NextHonest ==
  \/ BuildUrl
  \/ ConnectOk
  \/ ConnectFail
  \/ RequestOk
  \/ RequestErr
  \/ HonestParseOk
  \/ ParseFail
  \/ TrackedProcessUpdate
  \/ OverflowPanic
  \/ BatchDone
  \/ Sleep

SpecHonest == Init /\ [][NextHonest]_vars

\* C18: with a backend that honours the offset, no update id is handed to
\* the loop body more than once in a run, and a cycle whose body failed to
\* parse has made no call.
C18_NoDuplicateDispatch ==
  /\ ~duplicate
  /\ (outcome = "parse" /\ pc = "sleep") => (log = <<>> /\ idx = 0)

\* C19: update_id + 1 stays within u64 for every update_id the parser
\* accepts: the loop never aborts on it, and right after an update was taken
\* the offset is its id + 1, above the id and not wrapped to 0.
C19_NoWrapNoAbort ==
  /\ pc # "panicked"
  /\ (pc = "batch" /\ idx >= 1) =>
       /\ offset = result[idx].update_id + 1
       /\ offset > result[idx].update_id

====
